---------------------------- MODULE Spec2Model ----------------------------
(***************************************************************************)
(* TomodoroTimer (src/src/timer.ts) and the command handlers that drive it *)
(* (extension.ts: activate).  Every handler of the extension host's        *)
(* single-threaded event loop -- a command callback, the setInterval       *)
(* callback, the continuation of a notification promise -- runs to         *)
(* completion and is one action.  The methods of the class are operators   *)
(* from an object state to an object state, so that a method calling       *)
(* another (reset -> pause, tick -> switchPhase -> pause) is the           *)
(* composition the code performs.                                          *)
(***************************************************************************)
EXTENDS Integers, Sequences, FiniteSets, TLC

(* ------------------------------ bounds -------------------------------- *)

\* Work sessions completed before a further WORK -> BREAK transition is cut off.
MaxSessions == 2

\* Notification prompts left unanswered at one time.
MaxPending == 2

\* The largest number of seconds formatTime is applied to on its own.
MaxSeconds == 3700

(* ------------------------- program constants -------------------------- *)

workTime == 50 * 60

breakTime == 10 * 60

\* The value of the field `timer` when no interval is held.
undefined == 0

\* The labels of the two actionable notifications.
Items == {"Start Break", "Start Work"}

\* What a notification promise resolves to when the user dismisses it.
NoSelection == "undefined"

(* --------------------------- pure helpers ----------------------------- *)

Digits == <<"0", "1", "2", "3", "4", "5", "6", "7", "8", "9">>

\* Number.prototype.toString() of an integer.
RECURSIVE toString(_)
toString(n) ==
    IF n < 0 THEN "-" \o toString(0 - n)
    ELSE IF n < 10 THEN Digits[n + 1]
    ELSE toString(n \div 10) \o Digits[(n % 10) + 1]

\* String.prototype.padStart(2, '0').
padStart2(str) == IF Len(str) >= 2 THEN str ELSE "0" \o str

\* The % of JavaScript: the result takes the sign of the dividend.
jsRem(a, b) == IF a >= 0 THEN a % b ELSE 0 - ((0 - a) % b)

\* formatTime() with the minutes clamped to 59.
formatTimeClamped(seconds) ==
    LET mins == IF seconds \div 60 > 59 THEN 59 ELSE seconds \div 60
        secs == jsRem(seconds, 60)
    IN  padStart2(toString(mins)) \o ":" \o padStart2(toString(secs))

formatTime(seconds) ==
    LET mins == seconds \div 60
        secs == jsRem(seconds, 60)
    IN  padStart2(toString(mins)) \o ":" \o padStart2(toString(secs))

(* ---------------------------- the object ------------------------------ *)

VARIABLES
    timer,          \* this.timer: the interval handle held, or undefined
    timeLeft,       \* this.timeLeft
    isRunning,      \* this.isRunning
    isWorkPhase,    \* this.isWorkPhase
    currentSession, \* this.currentSession
    statusBarItem,  \* what the status bar item was last set to
    intervals,      \* the handles of the intervals that are live in the runtime
    pending,        \* per label, the prompts whose promise is not yet resolved
    notes,          \* the notifications shown by the handler that ran last
    lastOp,         \* the handler that ran last: [op, item, selection]
    disposals,      \* how many times statusBarItem.dispose() has been called
    host            \* the extension in its host: "active", "deactivated"
                    \* (deactivate() has returned) or "unloaded"
                    \* (context.subscriptions have been disposed)

vars == <<timer, timeLeft, isRunning, isWorkPhase, currentSession,
          statusBarItem, intervals, pending, notes, lastOp, disposals, host>>

\* The object and its environment as one value.
this ==
    [timer |-> timer, timeLeft |-> timeLeft, isRunning |-> isRunning,
     isWorkPhase |-> isWorkPhase, currentSession |-> currentSession,
     statusBarItem |-> statusBarItem, intervals |-> intervals,
     pending |-> pending, notes |-> notes, disposals |-> disposals]

\* vscode.window.showInformationMessage(message)
showInformationMessage(s, message) ==
    [s EXCEPT !.notes = Append(@, message)]

\* vscode.window.showInformationMessage(message, item): the promise stays
\* pending until the user picks the item or dismisses the notification.
showActionMessage(s, message, item) ==
    [s EXCEPT !.notes = Append(@, message), !.pending[item] = @ + 1]

\* setInterval: a handle no live interval has.
newHandle(s) ==
    CHOOSE h \in 1..(Cardinality(s.intervals) + 1) : h \notin s.intervals

updateStatusBar(s) ==
    LET icon == IF s.isWorkPhase THEN "target" ELSE "coffee"
        phase == IF s.isWorkPhase THEN "WORK" ELSE "BREAK"
        time == formatTime(s.timeLeft)
        status == IF s.isRunning THEN "$(play)" ELSE "$(debug-pause)"
    IN  [s EXCEPT !.statusBarItem =
            [text |-> <<icon, phase \o ": " \o time \o " " \o status>>,
             tooltip |-> "Tomodoro Timer | Session: " \o toString(s.currentSession)
                         \o " | Click to "
                         \o (IF s.isRunning THEN "pause" ELSE "start"),
             color |-> IF s.isWorkPhase THEN "statusBar.foreground" ELSE "#FFA500",
             command |-> IF s.isRunning THEN "tomodoro.pause" ELSE "tomodoro.start"]]

\* start() without its isRunning guard: a second interval over the first.
startNoGuard(s) ==
    LET h == newHandle(s)
        s1 == [s EXCEPT !.isRunning = TRUE, !.timer = h,
                        !.intervals = @ \cup {h}]
    IN  showInformationMessage(s1,
            "Tomodoro started! "
            \o (IF s1.isWorkPhase THEN "Work" ELSE "Break")
            \o " time: " \o formatTime(s1.timeLeft))

start(s) ==
    IF s.isRunning
    THEN showInformationMessage(s, "Timer is already running!")
    ELSE LET h == newHandle(s)
             s1 == [s EXCEPT !.isRunning = TRUE, !.timer = h,
                             !.intervals = @ \cup {h}]
         IN  showInformationMessage(s1,
                 "Tomodoro started! "
                 \o (IF s1.isWorkPhase THEN "Work" ELSE "Break")
                 \o " time: " \o formatTime(s1.timeLeft))

\* pause() that drops its handle without clearing the interval.
pauseLeavesInterval(s) ==
    IF ~s.isRunning
    THEN showInformationMessage(s, "Timer is not running!")
    ELSE showInformationMessage(
             [s EXCEPT !.isRunning = FALSE, !.timer = undefined],
             "Timer paused")

\* pause() that clears the interval but keeps its handle in the field.
pauseKeepsHandle(s) ==
    IF ~s.isRunning
    THEN showInformationMessage(s, "Timer is not running!")
    ELSE LET s1 == [s EXCEPT !.isRunning = FALSE]
             s2 == IF s1.timer # undefined
                   THEN [s1 EXCEPT !.intervals = @ \ {s1.timer}]
                   ELSE s1
         IN  showInformationMessage(s2, "Timer paused")

pause(s) ==
    IF ~s.isRunning
    THEN showInformationMessage(s, "Timer is not running!")
    ELSE LET s1 == [s EXCEPT !.isRunning = FALSE]
             s2 == IF s1.timer # undefined
                   THEN [s1 EXCEPT !.intervals = @ \ {s1.timer},
                                   !.timer = undefined]
                   ELSE s1
         IN  showInformationMessage(s2, "Timer paused")

\* reset() that leaves the session counter alone.
resetKeepsSessions(s) ==
    LET s1 == pause(s)
        s2 == [s1 EXCEPT !.isWorkPhase = TRUE, !.timeLeft = workTime]
    IN  showInformationMessage(updateStatusBar(s2),
                               "Timer reset to 50:00 work time")

reset(s) ==
    LET s1 == pause(s)
        s2 == [s1 EXCEPT !.isWorkPhase = TRUE, !.timeLeft = workTime,
                         !.currentSession = 0]
    IN  showInformationMessage(updateStatusBar(s2),
                               "Timer reset to 50:00 work time")

\* switchPhase() without the pause() it begins with.
switchPhaseKeepsRunning(s) ==
    LET s2 == IF s.isWorkPhase
              THEN LET a == [s EXCEPT !.isWorkPhase = FALSE,
                                      !.timeLeft = breakTime,
                                      !.currentSession = @ + 1]
                   IN  showActionMessage(a,
                           "Work session " \o toString(a.currentSession)
                           \o " completed! Time for a 10-minute break.",
                           "Start Break")
              ELSE LET b == [s EXCEPT !.isWorkPhase = TRUE,
                                      !.timeLeft = workTime]
                   IN  showActionMessage(b,
                           "Break finished! Ready for work session "
                           \o toString(b.currentSession + 1) \o "?",
                           "Start Work")
    IN  updateStatusBar(s2)

\* switchPhase() that counts a session at the end of a break as well.
switchPhaseCountsBoth(s) ==
    LET s1 == pause(s)
        s2 == IF s1.isWorkPhase
              THEN LET a == [s1 EXCEPT !.isWorkPhase = FALSE,
                                       !.timeLeft = breakTime,
                                       !.currentSession = @ + 1]
                   IN  showActionMessage(a,
                           "Work session " \o toString(a.currentSession)
                           \o " completed! Time for a 10-minute break.",
                           "Start Break")
              ELSE LET b == [s1 EXCEPT !.isWorkPhase = TRUE,
                                       !.timeLeft = workTime,
                                       !.currentSession = @ + 1]
                   IN  showActionMessage(b,
                           "Break finished! Ready for work session "
                           \o toString(b.currentSession + 1) \o "?",
                           "Start Work")
    IN  updateStatusBar(s2)

switchPhase(s) ==
    LET s1 == pause(s)
        s2 == IF s1.isWorkPhase
              THEN LET a == [s1 EXCEPT !.isWorkPhase = FALSE,
                                       !.timeLeft = breakTime,
                                       !.currentSession = @ + 1]
                   IN  showActionMessage(a,
                           "Work session " \o toString(a.currentSession)
                           \o " completed! Time for a 10-minute break.",
                           "Start Break")
              ELSE LET b == [s1 EXCEPT !.isWorkPhase = TRUE,
                                       !.timeLeft = workTime]
                   IN  showActionMessage(b,
                           "Break finished! Ready for work session "
                           \o toString(b.currentSession + 1) \o "?",
                           "Start Work")
    IN  updateStatusBar(s2)

\* skip() that carries a running timer over into the next phase.
skipKeepsRunning(s) ==
    LET s1 == switchPhase(s)
        s2 == IF s.isRunning THEN start(s1) ELSE s1
    IN  showInformationMessage(s2,
            "Switched to " \o (IF s2.isWorkPhase THEN "work" ELSE "break")
            \o " phase")

skip(s) ==
    LET s1 == switchPhase(s)
    IN  showInformationMessage(s1,
            "Switched to " \o (IF s1.isWorkPhase THEN "work" ELSE "break")
            \o " phase")

\* tick() that refreshes the status bar before it takes the second off.
tickStaleView(s) ==
    LET s1 == updateStatusBar(s)
        s2 == [s1 EXCEPT !.timeLeft = @ - 1]
    IN  IF s2.timeLeft <= 0 THEN switchPhase(s2) ELSE s2

\* tick() without the end-of-phase check.
tickNoSwitch(s) ==
    updateStatusBar([s EXCEPT !.timeLeft = @ - 1])

\* tick() that stops counting at the last second.
tickHoldsLastSecond(s) ==
    LET s1 == IF s.timeLeft > 1 THEN [s EXCEPT !.timeLeft = @ - 1] ELSE s
    IN  updateStatusBar(s1)

\* tick() that switches the phase only below 0.
tickStrict(s) ==
    LET s1 == [s EXCEPT !.timeLeft = @ - 1]
        s2 == IF s1.timeLeft < 0 THEN switchPhase(s1) ELSE s1
    IN  updateStatusBar(s2)

tick(s) ==
    LET s1 == [s EXCEPT !.timeLeft = @ - 1]
        s2 == IF s1.timeLeft <= 0 THEN switchPhase(s1) ELSE s1
    IN  updateStatusBar(s2)

\* dispose() that tears the status bar item down and leaves the timer alone.
disposeNoPause(s) ==
    [s EXCEPT !.disposals = @ + 1]

dispose(s) ==
    LET s1 == pause(s)
    IN  [s1 EXCEPT !.disposals = @ + 1]

\* A continuation that starts the timer only in the phase its prompt offered.
onSelectionIfFresh(s, item, selection) ==
    IF selection = item /\ (item = "Start Work" <=> s.isWorkPhase)
    THEN start(s)
    ELSE s

\* The continuation attached to an actionable notification.
onSelection(s, item, selection) ==
    IF selection = item THEN start(s) ELSE s

\* The field initialisers, then the body of the constructor.
fieldInit ==
    [timer |-> undefined, timeLeft |-> 0, isRunning |-> FALSE,
     isWorkPhase |-> TRUE, currentSession |-> 0,
     statusBarItem |-> [text |-> <<"", "">>, tooltip |-> "", color |-> "",
                        command |-> ""],
     intervals |-> {}, pending |-> [i \in Items |-> 0], notes |-> <<>>,
     disposals |-> 0]

constructor == reset(updateStatusBar(fieldInit))

(* ---------------------------- the handlers ---------------------------- *)

\* The state a handler starts from: nothing shown yet by this handler.
entry == [this EXCEPT !.notes = <<>>]

Op(name) == [op |-> name, item |-> "", selection |-> ""]

Commit(s, op) ==
    /\ timer' = s.timer
    /\ timeLeft' = s.timeLeft
    /\ isRunning' = s.isRunning
    /\ isWorkPhase' = s.isWorkPhase
    /\ currentSession' = s.currentSession
    /\ statusBarItem' = s.statusBarItem
    /\ intervals' = s.intervals
    /\ pending' = s.pending
    /\ notes' = s.notes
    /\ disposals' = s.disposals
    /\ lastOp' = op

PendingCount == pending["Start Break"] + pending["Start Work"]

\* A phase transition from the current state stays within the bounds.
CanSwitch ==
    /\ PendingCount < MaxPending
    /\ isWorkPhase => currentSession < MaxSessions

Init ==
    /\ timer = constructor.timer
    /\ timeLeft = constructor.timeLeft
    /\ isRunning = constructor.isRunning
    /\ isWorkPhase = constructor.isWorkPhase
    /\ currentSession = constructor.currentSession
    /\ statusBarItem = constructor.statusBarItem
    /\ intervals = constructor.intervals
    /\ pending = constructor.pending
    /\ notes = constructor.notes
    /\ disposals = constructor.disposals
    /\ lastOp = Op("constructor")
    /\ host = "active"

\* The commands are dispatched to the extension while it is active.
Start ==
    /\ host = "active"
    /\ Commit(start(entry), Op("start"))
    /\ UNCHANGED host

Pause ==
    /\ host = "active"
    /\ Commit(pause(entry), Op("pause"))
    /\ UNCHANGED host

Reset ==
    /\ host = "active"
    /\ Commit(reset(entry), Op("reset"))
    /\ UNCHANGED host

Skip ==
    /\ host = "active"
    /\ CanSwitch
    /\ Commit(skip(entry), Op("skip"))
    /\ UNCHANGED host

\* The callback of a live interval fires.
Tick ==
    /\ intervals # {}
    /\ timeLeft - 1 <= 0 => CanSwitch
    /\ Commit(tick(entry), Op("tick"))
    /\ UNCHANGED host

\* The user answers a pending prompt: picks its button or dismisses it.
Answer ==
    \E item \in Items, selection \in Items \cup {NoSelection} :
        /\ pending[item] > 0
        /\ selection \in {item, NoSelection}
        /\ Commit(onSelection([entry EXCEPT !.pending[item] = @ - 1],
                              item, selection),
                  [op |-> "then", item |-> item, selection |-> selection])
        /\ UNCHANGED host

\* The host deactivates the extension: it calls deactivate().
Deactivate ==
    /\ host = "active"
    /\ Commit(dispose(entry), Op("deactivate"))
    /\ host' = "deactivated"

\* The host then disposes the entries of context.subscriptions: the four
\* command registrations and the timer that activate() pushed there.
DisposeSubscriptions ==
    /\ host = "deactivated"
    /\ Commit(dispose(entry), Op("disposeSubscriptions"))
    /\ host' = "unloaded"

Next ==
    \/ Start
    \/ Pause
    \/ Reset
    \/ Skip
    \/ Tick
    \/ Answer
    \/ Deactivate
    \/ DisposeSubscriptions

Spec == Init /\ [][Next]_vars

\* The run of the specification's scenario: start() on the new timer, then
\* nothing but the interval firing until the phase ends, then skip().
ScenarioNext ==
    \/ lastOp.op = "constructor" /\ Start
    \/ isRunning /\ Tick
    \/ lastOp.op = "tick" /\ ~isRunning /\ Skip

Scenario == Init /\ [][ScenarioNext]_vars

\* formatTime on its own: the argument is any number of seconds up to
\* MaxSeconds, held in timeLeft of an otherwise new timer, and the string
\* returned is left in notes.
FormatInit ==
    /\ timeLeft \in 0..MaxSeconds
    /\ timer = constructor.timer
    /\ isRunning = constructor.isRunning
    /\ isWorkPhase = constructor.isWorkPhase
    /\ currentSession = constructor.currentSession
    /\ statusBarItem = constructor.statusBarItem
    /\ intervals = constructor.intervals
    /\ pending = constructor.pending
    /\ notes = <<>>
    /\ disposals = constructor.disposals
    /\ lastOp = Op("constructor")
    /\ host = "active"

Format ==
    /\ lastOp.op = "constructor"
    /\ notes' = <<formatTime(timeLeft)>>
    /\ lastOp' = Op("formatTime")
    /\ UNCHANGED <<timer, timeLeft, isRunning, isWorkPhase, currentSession,
                   statusBarItem, intervals, pending, disposals, host>>

FormatSpec == FormatInit /\ [][Format]_vars

\* The timer left to itself while it runs: the user acts only on a stopped
\* timer, and on a running one nothing happens but the interval firing,
\* which setInterval does every second for as long as the interval is live.
CountdownNext ==
    \/ ~isRunning /\ Start
    \/ ~isRunning /\ Skip
    \/ ~isRunning /\ Reset
    \/ ~isRunning /\ Answer
    \/ Tick

Countdown == Init /\ [][CountdownNext]_vars /\ WF_vars(Tick)

(* ------------------------------ claims -------------------------------- *)

\* The fields the specification calls the state of the timer.
Core == <<isWorkPhase, timeLeft, currentSession, isRunning>>

\* The full duration of a phase.
Duration(work) == IF work THEN workTime ELSE breakTime

\* C1: timeLeft is >= 0 in the state after construction and after every
\* handler; a tick that brings timeLeft to 0 or below has switched the phase
\* by the time it returns.
NonNegativeTime ==
    /\ timeLeft >= 0
    /\ [][/\ timeLeft' >= 0
          /\ (lastOp'.op = "tick" /\ timeLeft - 1 <= 0)
                => isWorkPhase' # isWorkPhase]_vars

\* C1 witness: a tick has expired a break and the work phase is back at its
\* full duration.
ExpiredBreak ==
    lastOp.op = "tick" /\ isWorkPhase /\ timeLeft = workTime /\ ~isRunning

\* C2: the field timer holds a handle exactly when isRunning is true, and
\* the handle it holds is a live interval.
HandleIffRunning ==
    /\ (timer # undefined) <=> isRunning
    /\ timer # undefined => timer \in intervals

\* C2 witness: running, with a handle, after an accepted prompt.
RunningByPrompt ==
    lastOp.op = "then" /\ isRunning /\ timer # undefined

\* C3: currentSession grows by exactly 1 on every WORK -> BREAK transition,
\* is unchanged by start, pause, an answered prompt, a tick that does not
\* expire and a BREAK -> WORK transition, is 0 after reset, and only reset
\* makes it smaller.
SessionCounting ==
    [][/\ (isWorkPhase /\ ~isWorkPhase')
            => (lastOp'.op \in {"skip", "tick"}
                /\ currentSession' = currentSession + 1)
       /\ lastOp'.op \in {"start", "pause", "then"}
            => currentSession' = currentSession
       /\ (lastOp'.op = "tick" /\ isWorkPhase' = isWorkPhase)
            => currentSession' = currentSession
       /\ (~isWorkPhase /\ isWorkPhase' /\ lastOp'.op # "reset")
            => currentSession' = currentSession
       /\ lastOp'.op = "reset" => currentSession' = 0
       /\ currentSession' < currentSession => lastOp'.op = "reset"]_vars

\* C3 witness: a tick has expired the second work session.
SecondSessionExpired ==
    /\ lastOp.op = "tick"
    /\ ~isWorkPhase
    /\ timeLeft = breakTime
    /\ ~isRunning
    /\ currentSession = 2

\* C4: skip() in WORK, running or paused, and the tick that takes timeLeft
\* from 1 to 0 in WORK both end in (BREAK, breakTime, sessions + 1, paused)
\* with no handle and no live interval.
SkipEqualsExpiry ==
    [][(isWorkPhase /\ (lastOp'.op = "skip"
                        \/ (lastOp'.op = "tick" /\ timeLeft = 1)))
          => /\ Core' = <<FALSE, breakTime, currentSession + 1, FALSE>>
             /\ timer' = undefined
             /\ intervals' = {}]_vars

\* C4 witness: skip() has ended a work phase that was running.
SkippedRunningWork ==
    /\ lastOp.op = "skip"
    /\ ~isWorkPhase
    /\ notes[1] = "Timer paused"

\* The state reset() is specified to leave: (WORK, 3000, 0, paused), no
\* handle held and no interval live.
ResetState(s) ==
    /\ <<s.isWorkPhase, s.timeLeft, s.currentSession, s.isRunning>>
           = <<TRUE, 3000, 0, FALSE>>
    /\ s.timer = undefined
    /\ s.intervals = {}

\* C5: after reset(), called in any state, the state is (WORK, 3000, 0,
\* paused) with no handle and no live interval, and a reset() called right
\* after it gives that state again.
ResetIdempotent ==
    lastOp.op = "reset" => (ResetState(this) /\ ResetState(reset(entry)))

\* C5 witness: reset() has stopped a running break with sessions counted.
ResetFromRunning ==
    /\ lastOp.op = "reset"
    /\ notes[1] = "Timer paused"
    /\ pending["Start Break"] = 2

\* C6: start() while running and pause() while paused change no field, hold
\* no new interval, and show only their "already running" / "not running"
\* notification.
NoOpGuards ==
    [][/\ (lastOp'.op = "start" /\ isRunning)
            => /\ UNCHANGED <<Core, timer, intervals, statusBarItem, pending>>
               /\ notes' = <<"Timer is already running!">>
       /\ (lastOp'.op = "pause" /\ ~isRunning)
            => /\ UNCHANGED <<Core, timer, intervals, statusBarItem, pending>>
               /\ notes' = <<"Timer is not running!">>]_vars

\* C6 witness: start() has been called on a running timer.
StartedWhileRunning ==
    lastOp.op = "start" /\ notes = <<"Timer is already running!">>

\* C7: after start(), pause(), reset() and skip() the status bar item shows
\* the view of the current state.
DisplayInSync ==
    lastOp.op \in {"start", "pause", "reset", "skip"}
        => statusBarItem = updateStatusBar(this).statusBarItem

\* C8: reset() on a timer that is not running, the one in the constructor
\* included, does not show "Timer is not running!": the reset confirmation
\* is the only notification.
ResetSilent ==
    (lastOp.op \in {"constructor", "reset"} /\ notes[1] # "Timer paused")
        => notes = <<"Timer reset to 50:00 work time">>

\* C9: an answered prompt, whatever ran since it was shown: accepted on a
\* running timer it changes no field and shows "already running"; accepted
\* on a paused timer it starts the current phase with the current time
\* left, whichever phase the prompt offered; dismissed, it changes nothing.
AcceptIsStart ==
    [][lastOp'.op = "then" =>
        /\ pending' = [pending EXCEPT ![lastOp'.item] = @ - 1]
        /\ UNCHANGED <<isWorkPhase, timeLeft, currentSession, statusBarItem>>
        /\ IF lastOp'.selection # lastOp'.item
           THEN /\ UNCHANGED <<isRunning, timer, intervals>>
                /\ notes' = <<>>
           ELSE IF isRunning
           THEN /\ UNCHANGED <<isRunning, timer, intervals>>
                /\ notes' = <<"Timer is already running!">>
           ELSE /\ isRunning'
                /\ timer' # undefined
                /\ timer' \notin intervals
                /\ intervals' = intervals \cup {timer'}
                /\ notes' = <<"Tomodoro started! "
                              \o (IF isWorkPhase THEN "Work" ELSE "Break")
                              \o " time: " \o formatTime(timeLeft)>>]_vars

\* C9 witness: the prompt offering to start the break was accepted in a work
\* phase that was not running, and started it.
StaleAcceptStartedWork ==
    /\ lastOp.op = "then"
    /\ lastOp.item = "Start Break"
    /\ lastOp.selection = "Start Break"
    /\ isWorkPhase
    /\ notes = <<"Tomodoro started! Work time: 50:00">>

\* C10 as stated: every tick leaves timeLeft one below what it was.
TickDecrementsByOne ==
    [][lastOp'.op = "tick" => timeLeft' = timeLeft - 1]_vars

\* C10 amended: a tick taken with timeLeft above 1 leaves timeLeft one below
\* what it was, phase and running flag unchanged; the tick taken at
\* timeLeft = 1 switches the phase and leaves timeLeft at the full duration
\* of the new phase, the timer paused.
TickDecrementsOrSwitches ==
    [][lastOp'.op = "tick" =>
        IF timeLeft > 1
        THEN /\ timeLeft' = timeLeft - 1
             /\ UNCHANGED <<isWorkPhase, isRunning>>
        ELSE /\ isWorkPhase' # isWorkPhase
             /\ timeLeft' = Duration(isWorkPhase')
             /\ ~isRunning']_vars

\* C10 witness: a tick has expired a work phase and the break is at its full
\* duration.
ExpiredWork ==
    /\ lastOp.op = "tick"
    /\ ~isWorkPhase
    /\ timeLeft = breakTime
    /\ ~isRunning
    /\ notes[1] = "Timer paused"

\* The handlers that call start(): the command and an accepted prompt.
IsStart(op) ==
    op.op = "start" \/ (op.op = "then" /\ op.selection = op.item)

\* C11: when pause(), reset() or skip() returns the timer is stopped and no
\* interval is live; a stopped timer has no live interval, only a start()
\* sets it running again, and a tick runs only on a running timer: between
\* one of the three and the next start() no tick runs and timeLeft is not
\* decremented.
NoStrayTick ==
    /\ ~isRunning => intervals = {}
    /\ [][/\ ~isRunning' => intervals' = {}
          /\ lastOp'.op \in {"pause", "reset", "skip"}
                => (~isRunning' /\ timer' = undefined /\ intervals' = {})
          /\ lastOp'.op = "tick" => isRunning
          /\ (~isRunning /\ isRunning') => IsStart(lastOp')
          /\ (~isRunning /\ ~IsStart(lastOp') /\ lastOp'.op # "skip")
                => timeLeft' >= timeLeft]_vars

\* C11 witness: pause() has stopped a countdown that was under way.
PausedMidCountdown ==
    /\ lastOp.op = "pause"
    /\ notes = <<"Timer paused">>
    /\ timeLeft < workTime
    /\ isWorkPhase

\* C12: in the scenario the new timer is (WORK, 3000, 0, paused); start()
\* sets it running with a live interval; each of the first 2999 ticks takes
\* one second off and shows no prompt; the 3000th, taken at timeLeft = 1,
\* leaves (BREAK, 600, 1, paused) with the "work session completed" prompt
\* shown once; skip() then leaves (WORK, 3000, 1, paused).
ScenarioRun ==
    /\ Core = <<TRUE, 3000, 0, FALSE>>
    /\ [][/\ lastOp'.op = "start"
                => /\ Core' = <<TRUE, 3000, 0, TRUE>>
                   /\ timer' # undefined
                   /\ intervals' = {timer'}
          /\ (lastOp'.op = "tick" /\ timeLeft > 1)
                => /\ Core' = <<TRUE, timeLeft - 1, 0, TRUE>>
                   /\ pending'["Start Break"] = 0
          /\ (lastOp'.op = "tick" /\ timeLeft <= 1)
                => /\ Core' = <<FALSE, 600, 1, FALSE>>
                   /\ pending'["Start Break"] = 1
                   /\ notes' = <<"Timer paused",
                                 "Work session 1 completed! Time for a 10-minute break.">>
          /\ lastOp'.op = "skip"
                => /\ Core' = <<TRUE, 3000, 1, FALSE>>
                   /\ pending'["Start Break"] = 1]_vars

\* C12 witness: the scenario has run to its end.
ScenarioDone ==
    lastOp.op = "skip" /\ Core = <<TRUE, 3000, 1, FALSE>>

\* The handlers that are one call of dispose().
IsDispose(op) == op.op \in {"deactivate", "disposeSubscriptions"}

\* C13: a call of dispose() leaves the timer stopped with no handle and no
\* live interval, calls statusBarItem.dispose() exactly once and takes no
\* time off; no tick follows it, and the next tick, if any, comes after a
\* start().
DisposeStopsTicking ==
    [][/\ IsDispose(lastOp')
            => /\ ~isRunning'
               /\ timer' = undefined
               /\ intervals' = {}
               /\ disposals' = disposals + 1
               /\ UNCHANGED <<isWorkPhase, timeLeft, currentSession>>
       /\ IsDispose(lastOp) => lastOp'.op # "tick"
       /\ (host # "active" /\ lastOp'.op = "tick") => isRunning
       /\ (host # "active" /\ ~isRunning /\ isRunning') => IsStart(lastOp')]_vars

\* C13 witness: deactivate() has disposed a timer that was counting down.
DisposedWhileRunning ==
    /\ lastOp.op = "deactivate"
    /\ notes = <<"Timer paused">>
    /\ timeLeft < workTime
    /\ disposals = 1

\* C14: over a host session the timer is destroyed once: when the host has
\* called deactivate() and disposed context.subscriptions, dispose() has run
\* once and the status bar item has been disposed once.
DestroyedOnce ==
    /\ disposals <= 1
    /\ host = "unloaded" => disposals = 1

\* C15: skip() in BREAK and the tick that takes timeLeft from 1 to 0 in
\* BREAK, on a running or a paused timer, leave (WORK, workTime, sessions
\* unchanged, paused); every handler that changes the phase leaves the timer
\* stopped with no live interval.
TransitionStopsTimer ==
    [][/\ (~isWorkPhase /\ (lastOp'.op = "skip"
                            \/ (lastOp'.op = "tick" /\ timeLeft = 1)))
            => /\ Core' = <<TRUE, workTime, currentSession, FALSE>>
               /\ timer' = undefined
               /\ intervals' = {}
       /\ lastOp'.op = "skip" => isWorkPhase' # isWorkPhase
       /\ isWorkPhase' # isWorkPhase
            => /\ ~isRunning'
               /\ timer' = undefined
               /\ intervals' = {}
               /\ timeLeft' = Duration(isWorkPhase')]_vars

\* C15 witness: skip() has ended a break that was running.
SkippedRunningBreak ==
    /\ lastOp.op = "skip"
    /\ isWorkPhase
    /\ notes[1] = "Timer paused"
    /\ currentSession = 1

\* A number below 100 written with two decimal digits.
TwoDigits(n) == Digits[(n \div 10) + 1] \o Digits[(n % 10) + 1]

\* C16: for every s from 0 up to MaxSeconds (minutes below 100),
\* formatTime(s) is floor(s / 60) in two digits, a colon, and s mod 60 in
\* two digits, the minutes not clamped to 59: 125 gives "02:05", 3000
\* "50:00", 3600 "60:00" and 0 "00:00".
FormatTimeValue ==
    lastOp.op = "formatTime"
        => /\ notes = <<TwoDigits(timeLeft \div 60) \o ":"
                        \o TwoDigits(timeLeft % 60)>>
           /\ timeLeft = 125 => notes = <<"02:05">>
           /\ timeLeft = 3000 => notes = <<"50:00">>
           /\ timeLeft = 3600 => notes = <<"60:00">>
           /\ timeLeft = 0 => notes = <<"00:00">>

\* C16 witness: formatTime has been applied to one hour.
FormattedOneHour ==
    lastOp.op = "formatTime" /\ timeLeft = 3600 /\ notes = <<"60:00">>

\* C17: the new timer is (WORK, paused) with timeLeft = workTime and no
\* session counted, and all four combinations of phase and running flag are
\* reachable from it: start() leads from the new timer to (WORK, running);
\* skip() leads from the new timer, and from a work phase just started, to
\* (BREAK, paused); start() leads from a break that skip() has just begun
\* to (BREAK, running).
FourStatesReachable ==
    /\ lastOp.op = "constructor"
          => /\ Core = <<TRUE, workTime, 0, FALSE>>
             /\ ENABLED (Start /\ isWorkPhase' /\ isRunning')
    /\ (/\ lastOp.op \in {"constructor", "start"}
        /\ host = "active"
        /\ isWorkPhase
        /\ timeLeft = workTime
        /\ CanSwitch)
          => ENABLED (Skip /\ ~isWorkPhase' /\ ~isRunning')
    /\ (lastOp.op = "skip" /\ host = "active" /\ ~isWorkPhase)
          => ENABLED (Start /\ ~isWorkPhase' /\ isRunning')

\* C17 witness: a break that followed the first work session is running.
RunningBreak ==
    /\ lastOp.op = "start"
    /\ ~isWorkPhase
    /\ isRunning
    /\ currentSession = 1

\* C18: after every tick, with or without a phase transition, the status
\* bar item holds the view of the state the tick has left: phase, time
\* left, running glyph, session count and click command.
TickRefreshesDisplay ==
    lastOp.op = "tick" => statusBarItem = updateStatusBar(this).statusBarItem

\* C18 witness: the tick that ended a work phase has left the paused break
\* on the status bar.
ExpiryShown ==
    /\ lastOp.op = "tick"
    /\ ~isWorkPhase
    /\ ~isRunning
    /\ statusBarItem.text = <<"coffee", "BREAK: 10:00 $(debug-pause)">>
    /\ statusBarItem.command = "tomodoro.start"

\* C19: in every state from the end of the constructor on, timeLeft is at
\* least 1 and at most the full duration of the current phase.
TimeWithinPhase ==
    timeLeft \in 1..Duration(isWorkPhase)

\* C19 witness: a running work phase with one second left.
LastSecondOfWork ==
    isWorkPhase /\ isRunning /\ timeLeft = 1

\* C20: at most one interval is live at any time, and a live interval is
\* the one whose handle the field timer holds: none is leaked.
OneInterval ==
    /\ Cardinality(intervals) <= 1
    /\ \A h \in intervals : h = timer

\* C20 witness: with two prompts pending, one was accepted on a running
\* timer and found it running.
AcceptedWhileRunning ==
    /\ lastOp.op = "then"
    /\ lastOp.selection = lastOp.item
    /\ notes = <<"Timer is already running!">>
    /\ PendingCount = 1
    /\ Cardinality(intervals) = 1

\* C21: once dispose() has run the timer is never running again and holds
\* no interval, whatever prompt is answered afterwards.
NoRestartAfterDispose ==
    disposals > 0 => (~isRunning /\ timer = undefined /\ intervals = {})

\* C22: a running timer that is left to itself reaches the end of its
\* phase. Whatever the run, the timer is again and again stopped (or the
\* transition lies beyond the bounds of the model: ~CanSwitch); a timer left
\* running stops only by a tick, which leaves it in the other phase with
\* the full duration of that phase; a stopped timer has no live interval
\* and changes only by a command or an answered prompt, and runs again
\* only through start().
CountdownEnds ==
    /\ []<>(~isRunning \/ ~CanSwitch)
    /\ [][/\ (isRunning /\ ~isRunning') =>
                /\ lastOp'.op = "tick"
                /\ isWorkPhase' # isWorkPhase
                /\ timeLeft' = Duration(isWorkPhase')
          /\ ~isRunning' => intervals' = {}
          /\ (~isRunning /\ Core' # Core) =>
                lastOp'.op \in {"start", "skip", "reset", "then"}
          /\ (~isRunning /\ isRunning') => IsStart(lastOp')]_vars

\* C22 witness: a break that was left running has ended.
BreakRanOut ==
    /\ lastOp.op = "tick"
    /\ ~isRunning
    /\ isWorkPhase
    /\ timeLeft = workTime
    /\ currentSession = 1

=============================================================================
